---- MODULE Spec2Model ----
(***************************************************************************)
(* SMTP verification engine of email-verifier (smtp.go).                   *)
(*                                                                         *)
(* CheckSMTP -> CheckCatchAll -> (CheckSMTPPresence); each prober calls    *)
(* GetClient -> newSMTPClient, which races one dialSMTP task per MX host.  *)
(* Every goroutine of the code is a process of the model: per invocation   *)
(* of newSMTPClient and per MX host there is the attempt task (smtp.go     *)
(* 173-192) and the background dialer started by dialSMTP (222-243).       *)
(***************************************************************************)
EXTENDS Integers, Sequences, FiniteSets, TLC

\* ---------------------------------------------------------------- bounds
\* Largest MX set the resolver returns when newSMTPClient is studied alone.
MaxMX == 3
\* Largest MX set the resolver returns inside a whole CheckSMTP call.
MaxLookup == 1
\* the largest MX set of the domain probed twice (SpecTwice)
MaxFarm == 2

\* newSMTPClient is invoked at most twice per CheckSMTP call: once by
\* CheckCatchAll and once by CheckSMTPPresence (each through GetClient).
Invocations == {"CheckCatchAll", "CheckSMTPPresence"}

Largest(S) == CHOOSE n \in S : \A m \in S : m <= n
HostBound == Largest({MaxMX, MaxLookup, MaxFarm})
Hosts == 1..HostBound

\* ---------------------------------------------------------------- values
\* error values: Message is the classified kind ("" while unclassified),
\* Details the underlying failure, host the MX host it came from (0: none).
Nil == [Message |-> "nil", Details |-> "nil", host |-> 0]
RawErr(details, h) == [Message |-> "", Details |-> details, host |-> h]

\* *smtp.Client values: the host whose session it is; 0 is the nil client.
NoClient == 0

\* what travels on a chan interface{}: a *smtp.Client or an error
ClientMsg(h) == [client |-> h, err |-> Nil]
ErrorMsg(e) == [client |-> NoClient, err |-> e]

\* ---------------------------------------------------------------- state
VARIABLES
    \* --- newSMTPClient, per invocation
    rpc,        \* position of newSMTPClient: "idle","call","collect","ret"
    mxRecords,  \* len(mxRecords) of the invocation
    ch,         \* the result channel (capacity 1), a sequence
    done,       \* the shared flag
    mutex,      \* holder of the mutex (a host) or 0
    errs,       \* errors collected so far
    rret,       \* what newSMTPClient returned: [client, err]
    placed,     \* the hosts whose client was ever sent on ch (history)
    \* --- per invocation and MX host
    tpc,        \* position of the attempt task
    tval,       \* what dialSMTP returned to the task: [client, err]
    ipc,        \* position of dialSMTP's background goroutine
    dch,        \* dialSMTP's channel (capacity 1)
    sock,       \* the connection to the host: "none","open","closed"
    \* --- CheckSMTP
    opc,        \* position of the CheckSMTP call: "start","race","hello",
                \* "mail","rcpt","returned"
    cur,        \* the prober that is running (an element of Invocations)
    smtpCheckEnabled,
    username,
    ret,        \* CheckSMTP's local SMTP record
    client,     \* the client GetClient holds / handed to the running prober
    out,        \* what CheckSMTP returned: [ret, err]; ret is <<>> for a nil
                \* pointer and <<r>> for a pointer to the record r
    trace,      \* the network operations and calls made so far (history)
    probers,    \* per prober, how its call went (history): state is
                \* "notrun","running","ok" or "failed", err the error it
                \* returned, probed/reply whether and how its recipient
                \* probe was answered, rec the record as it left it
    \* --- the world outside the program
    server,     \* per MX host, how the server behaves (see AnyServer)
    prev        \* how an earlier run of the catch-all probe ended (history)

raceVars == <<rpc, mxRecords, ch, done, mutex, errs, rret, placed>>
taskVars == <<tpc, tval, ipc, dch, sock>>
callVars == <<opc, cur, smtpCheckEnabled, username, ret, client, out, trace, probers,
              server, prev>>
vars == <<rpc, mxRecords, ch, done, mutex, errs, rret, placed,
          tpc, tval, ipc, dch, sock,
          opc, cur, smtpCheckEnabled, username, ret, client, out, trace, probers,
          server, prev>>

ZeroSMTP == [HostExists |-> FALSE, FullInbox |-> FALSE, CatchAll |-> FALSE,
             Deliverable |-> FALSE, Disabled |-> FALSE]

NoResult == [client |-> NoClient, err |-> Nil]
NoOutput == [ret |-> <<>>, err |-> Nil]
NotRun == [state |-> "notrun", err |-> Nil, probed |-> FALSE, reply |-> Nil,
           rec |-> ZeroSMTP]

InitRace ==
    /\ mxRecords = [i \in Invocations |-> 0]
    /\ ch = [i \in Invocations |-> <<>>]
    /\ done = [i \in Invocations |-> FALSE]
    /\ mutex = [i \in Invocations |-> 0]
    /\ errs = [i \in Invocations |-> <<>>]
    /\ rret = [i \in Invocations |-> NoResult]
    /\ placed = [i \in Invocations |-> {}]
    /\ tpc = [i \in Invocations |-> [h \in Hosts |-> "none"]]
    /\ tval = [i \in Invocations |-> [h \in Hosts |-> NoResult]]
    /\ ipc = [i \in Invocations |-> [h \in Hosts |-> "none"]]
    /\ dch = [i \in Invocations |-> [h \in Hosts |-> <<>>]]
    /\ sock = [i \in Invocations |-> [h \in Hosts |-> "none"]]

\* ------------------------------------------------------- newSMTPClient
\* smtp.go 150-193: the MX lookup, the two early returns, and the launch of
\* one attempt task per MX record. Each task is inside dialSMTP at once,
\* which has made its channel and started its background goroutine.
\* limit bounds the size of the MX set the resolver may answer with.
newSMTPClient(i, limit) ==
    /\ rpc[i] = "call"
    /\ trace' = trace \cup {"LookupMX"}
    /\ \/ \* net.LookupMX fails: the error is returned as it is
          /\ rpc' = [rpc EXCEPT ![i] = "ret"]
          /\ rret' = [rret EXCEPT ![i] =
                        [client |-> NoClient, err |-> RawErr("lookup", 0)]]
          /\ UNCHANGED <<mxRecords, tpc, ipc>>
       \/ \* no MX records
          /\ rpc' = [rpc EXCEPT ![i] = "ret"]
          /\ rret' = [rret EXCEPT ![i] =
                        [client |-> NoClient, err |-> RawErr("no MX records found", 0)]]
          /\ UNCHANGED <<mxRecords, tpc, ipc>>
       \/ \E n \in 1..limit :
          /\ mxRecords' = [mxRecords EXCEPT ![i] = n]
          /\ tpc' = [tpc EXCEPT ![i] =
                        [h \in Hosts |-> IF h <= n THEN "dial" ELSE "none"]]
          /\ ipc' = [ipc EXCEPT ![i] =
                        [h \in Hosts |-> IF h <= n THEN "connect" ELSE "none"]]
          /\ rpc' = [rpc EXCEPT ![i] = "collect"]
          /\ UNCHANGED rret
    /\ UNCHANGED <<ch, done, mutex, errs, placed, tval, dch, sock>>
    /\ UNCHANGED <<opc, cur, server, prev, smtpCheckEnabled, username, ret, client, out, probers>>

\* ------------------------------------------------------------ the server
\* what the server may answer to a command: Nil (accepted) or a failure
Rejections == {"452 mailbox full", "554 not allowed", "550 no such user",
               "421 try again later", "connection lost"}
Replies(h) == {Nil} \cup {RawErr(d, h) : d \in Rejections}

\* How one MX server behaves: whether a connection to it can be made
\* (smtp.go 225-231) and its banner read (smtp.go 236), and what it may
\* answer (the Details of the replies) to EHLO (smtp.go 34), MAIL (smtp.go
\* 39), the RCPT for the random address (smtp.go 67) and the RCPT for the
\* real one (smtp.go 101); and whether it is done with connection and
\* banner before the timer of dialSMTP fires (smtp.go 256). Each field is
\* the set of possibilities.
AnyAnswer == {"nil"} \cup Rejections
AnyServer == [conn |-> BOOLEAN, banner |-> BOOLEAN, timely |-> BOOLEAN,
              helo |-> AnyAnswer, mail |-> AnyAnswer, rcpt |-> AnyAnswer,
              user |-> AnyAnswer]

\* what the server of host h may answer to a command
Answers(h, cmd) == {r \in Replies(h) : r.Details \in server[h][cmd]}

\* a command sent on the session of invocation i to host h: net/smtp
\* fails it when the connection has been closed
Exchange(i, h, cmd) ==
    IF sock[i][h] = "open" THEN Answers(h, cmd)
                           ELSE {RawErr("connection lost", h)}

\* no earlier run
NoRun == [ran |-> FALSE, lookup |-> 0, winner |-> NoClient,
          HostExists |-> FALSE, CatchAll |-> FALSE]

\* ------------------------------------------------------------ dialSMTP
\* smtp.go 222-234: the background goroutine opens the connection
\* (establishConnection / establishProxyConnection); on failure it sends
\* the error on dialSMTP's channel and ends.
establishConnection(i, h) ==
    /\ ipc[i][h] = "connect"
    /\ \/ /\ TRUE \in server[h].conn
          /\ sock' = [sock EXCEPT ![i][h] = "open"]
          /\ ipc' = [ipc EXCEPT ![i][h] = "newclient"]
          /\ UNCHANGED dch
       \/ /\ FALSE \in server[h].conn
          /\ dch' = [dch EXCEPT ![i][h] = Append(@, ErrorMsg(RawErr("connect", h)))]
          /\ ipc' = [ipc EXCEPT ![i][h] = "exit"]
          /\ UNCHANGED sock
    /\ UNCHANGED <<tpc, tval>>
    /\ UNCHANGED raceVars
    /\ UNCHANGED callVars

\* smtp.go 236-242: smtp.NewClient reads the banner. When it fails the
\* library has closed the connection and the error is sent; otherwise the
\* client is sent. The channel has capacity 1 and this is its only send,
\* so the send never blocks, whether or not dialSMTP is still receiving.
NewClient(i, h) ==
    /\ ipc[i][h] = "newclient"
    /\ \/ /\ TRUE \in server[h].banner
          /\ dch' = [dch EXCEPT ![i][h] = Append(@, ClientMsg(h))]
          /\ UNCHANGED sock
       \/ /\ FALSE \in server[h].banner
          /\ dch' = [dch EXCEPT ![i][h] = Append(@, ErrorMsg(RawErr("banner", h)))]
          /\ sock' = [sock EXCEPT ![i][h] = "closed"]
    /\ ipc' = [ipc EXCEPT ![i][h] = "exit"]
    /\ UNCHANGED <<tpc, tval>>
    /\ UNCHANGED raceVars
    /\ UNCHANGED callVars

\* where the attempt task goes with what dialSMTP returned (smtp.go 174-175)
AfterDial(r) == IF r.err # Nil THEN "checkdone" ELSE "lock"

\* smtp.go 246-255: the select receives from dialSMTP's channel
dialSMTP(i, h) ==
    /\ tpc[i][h] = "dial"
    /\ dch[i][h] # <<>>
    /\ tval' = [tval EXCEPT ![i][h] = Head(dch[i][h])]
    /\ dch' = [dch EXCEPT ![i][h] = Tail(@)]
    /\ tpc' = [tpc EXCEPT ![i][h] = AfterDial(Head(dch[i][h]))]
    /\ UNCHANGED <<ipc, sock>>
    /\ UNCHANGED raceVars
    /\ UNCHANGED callVars

\* smtp.go 256-257: the timer case of the select. It can be taken at any
\* time the task waits, also when the channel already holds a value (select
\* picks among ready cases), unless the server always answers before the
\* timer; the background goroutine is left running.
dialTimeout(i, h) ==
    /\ tpc[i][h] = "dial"
    /\ FALSE \in server[h].timely
    /\ tval' = [tval EXCEPT ![i][h] =
                  [client |-> NoClient,
                   err |-> RawErr("timeout connecting to mail-exchanger", h)]]
    /\ tpc' = [tpc EXCEPT ![i][h] = AfterDial(tval'[i][h])]
    /\ UNCHANGED <<ipc, dch, sock>>
    /\ UNCHANGED raceVars
    /\ UNCHANGED callVars

\* ---------------------------------------------------- the attempt task
\* The values a read of done made without the mutex can yield: the read
\* races with the write at smtp.go 186, so once done is set the reader may
\* see the new value or still the initial one.
RacyDone(i) == IF done[i] THEN {TRUE, FALSE} ELSE {FALSE}

\* an error path that ends the task without reporting the error
checkDoneDropsError(i, h) ==
    /\ tpc[i][h] = "checkdone"
    /\ tpc' = [tpc EXCEPT ![i][h] = "exit"]
    /\ UNCHANGED <<tval, ipc, dch, sock>>
    /\ UNCHANGED raceVars
    /\ UNCHANGED callVars

\* smtp.go 175-176: the error path tests done without taking the mutex
checkDone(i, h) ==
    /\ tpc[i][h] = "checkdone"
    /\ \E d \in RacyDone(i) :
          tpc' = [tpc EXCEPT ![i][h] = IF d THEN "exit" ELSE "senderr"]
    /\ UNCHANGED <<tval, ipc, dch, sock>>
    /\ UNCHANGED raceVars
    /\ UNCHANGED callVars

\* smtp.go 177-179: ch <- err, which blocks while the channel is full
sendError(i, h) ==
    /\ tpc[i][h] = "senderr"
    /\ Len(ch[i]) < 1
    /\ ch' = [ch EXCEPT ![i] = Append(@, ErrorMsg(tval[i][h].err))]
    /\ tpc' = [tpc EXCEPT ![i][h] = "exit"]
    /\ UNCHANGED <<rpc, mxRecords, done, mutex, errs, rret, placed>>
    /\ UNCHANGED <<tval, ipc, dch, sock>>
    /\ UNCHANGED callVars

\* smtp.go 183: mutex.Lock()
Lock(i, h) ==
    /\ tpc[i][h] = "lock"
    /\ mutex[i] = 0
    /\ mutex' = [mutex EXCEPT ![i] = h]
    /\ tpc' = [tpc EXCEPT ![i][h] = "switch"]
    /\ UNCHANGED <<rpc, mxRecords, ch, done, errs, rret, placed>>
    /\ UNCHANGED <<tval, ipc, dch, sock>>
    /\ UNCHANGED callVars

\* Switch whose default case forgets the Close
SwitchNoClose(i, h) ==
    /\ tpc[i][h] = "switch"
    /\ IF ~done[i]
         THEN /\ done' = [done EXCEPT ![i] = TRUE]
              /\ tpc' = [tpc EXCEPT ![i][h] = "sendclient"]
         ELSE /\ tpc' = [tpc EXCEPT ![i][h] = "unlock"]
              /\ UNCHANGED done
    /\ UNCHANGED sock
    /\ UNCHANGED <<rpc, mxRecords, ch, mutex, errs, rret, placed>>
    /\ UNCHANGED <<tval, ipc, dch>>
    /\ UNCHANGED callVars

\* Switch without the test of done: every success is sent
SwitchNoFlag(i, h) ==
    /\ tpc[i][h] = "switch"
    /\ done' = [done EXCEPT ![i] = TRUE]
    /\ tpc' = [tpc EXCEPT ![i][h] = "sendclient"]
    /\ UNCHANGED sock
    /\ UNCHANGED <<rpc, mxRecords, ch, mutex, errs, rret, placed>>
    /\ UNCHANGED <<tval, ipc, dch>>
    /\ UNCHANGED callVars

\* Switch with the Close deferred for every client, the winner's included
SwitchCloseAlways(i, h) ==
    /\ tpc[i][h] = "switch"
    /\ sock' = [sock EXCEPT ![i][tval[i][h].client] = "closed"]
    /\ IF ~done[i]
         THEN /\ done' = [done EXCEPT ![i] = TRUE]
              /\ tpc' = [tpc EXCEPT ![i][h] = "sendclient"]
         ELSE /\ tpc' = [tpc EXCEPT ![i][h] = "unlock"]
              /\ UNCHANGED done
    /\ UNCHANGED <<rpc, mxRecords, ch, mutex, errs, rret, placed>>
    /\ UNCHANGED <<tval, ipc, dch>>
    /\ UNCHANGED callVars

\* smtp.go 184-190: under the mutex, the first success sets done and goes
\* on to send its client; a later one closes its client
Switch(i, h) ==
    /\ tpc[i][h] = "switch"
    /\ IF ~done[i]
         THEN /\ done' = [done EXCEPT ![i] = TRUE]
              /\ tpc' = [tpc EXCEPT ![i][h] = "sendclient"]
              /\ UNCHANGED sock
         ELSE /\ sock' = [sock EXCEPT ![i][tval[i][h].client] = "closed"]
              /\ tpc' = [tpc EXCEPT ![i][h] = "unlock"]
              /\ UNCHANGED done
    /\ UNCHANGED <<rpc, mxRecords, ch, mutex, errs, rret, placed>>
    /\ UNCHANGED <<tval, ipc, dch>>
    /\ UNCHANGED callVars

\* smtp.go 187: ch <- c, made while holding the mutex; blocks while full
sendClient(i, h) ==
    /\ tpc[i][h] = "sendclient"
    /\ Len(ch[i]) < 1
    /\ ch' = [ch EXCEPT ![i] = Append(@, ClientMsg(tval[i][h].client))]
    /\ placed' = [placed EXCEPT ![i] = @ \cup {tval[i][h].client}]
    /\ tpc' = [tpc EXCEPT ![i][h] = "unlock"]
    /\ UNCHANGED <<rpc, mxRecords, done, mutex, errs, rret>>
    /\ UNCHANGED <<tval, ipc, dch, sock>>
    /\ UNCHANGED callVars

\* a task that closes its session when it ends, as a deferred Close would
UnlockAndClose(i, h) ==
    /\ tpc[i][h] = "unlock"
    /\ mutex' = [mutex EXCEPT ![i] = 0]
    /\ tpc' = [tpc EXCEPT ![i][h] = "exit"]
    /\ sock' = [sock EXCEPT ![i][h] = "closed"]
    /\ UNCHANGED <<rpc, mxRecords, ch, done, errs, rret, placed>>
    /\ UNCHANGED <<tval, ipc, dch>>
    /\ UNCHANGED callVars

\* smtp.go 191: mutex.Unlock(), and the task ends
Unlock(i, h) ==
    /\ tpc[i][h] = "unlock"
    /\ mutex' = [mutex EXCEPT ![i] = 0]
    /\ tpc' = [tpc EXCEPT ![i][h] = "exit"]
    /\ UNCHANGED <<rpc, mxRecords, ch, done, errs, rret, placed>>
    /\ UNCHANGED <<tval, ipc, dch, sock>>
    /\ UNCHANGED callVars

\* ------------------------------------------------------- the collector
\* the collector gives up one error short of the number of MX records
AllReportedOffByOne(n, total) == n + 1 >= total

\* smtp.go 204: all attempts have reported an error
AllReported(n, total) == n = total

\* a collector that first waits for every attempt task to end
CollectAfterAll(i) ==
    /\ rpc[i] = "collect"
    /\ \A h \in Hosts : tpc[i][h] \in {"none", "exit"}
    /\ ch[i] # <<>>
    /\ ch' = [ch EXCEPT ![i] = Tail(@)]
    /\ LET res == Head(ch[i]) IN
         IF res.client # NoClient
           THEN /\ rret' = [rret EXCEPT ![i] = [client |-> res.client, err |-> Nil]]
                /\ rpc' = [rpc EXCEPT ![i] = "ret"]
                /\ UNCHANGED errs
           ELSE /\ errs' = [errs EXCEPT ![i] = Append(@, res.err)]
                /\ IF AllReported(Len(errs'[i]), mxRecords[i])
                     THEN /\ rret' = [rret EXCEPT ![i] =
                                        [client |-> NoClient, err |-> errs'[i][1]]]
                          /\ rpc' = [rpc EXCEPT ![i] = "ret"]
                     ELSE UNCHANGED <<rret, rpc>>
    /\ UNCHANGED <<mxRecords, done, mutex, placed>>
    /\ UNCHANGED taskVars
    /\ UNCHANGED callVars

\* smtp.go 196-210: one receive of the collector loop. A client is
\* returned at once; an error is appended and, when every attempt has
\* reported one, the first collected error is returned.
Collect(i) ==
    /\ rpc[i] = "collect"
    /\ ch[i] # <<>>
    /\ ch' = [ch EXCEPT ![i] = Tail(@)]
    /\ LET res == Head(ch[i]) IN
         IF res.client # NoClient
           THEN /\ rret' = [rret EXCEPT ![i] = [client |-> res.client, err |-> Nil]]
                /\ rpc' = [rpc EXCEPT ![i] = "ret"]
                /\ UNCHANGED errs
           ELSE /\ errs' = [errs EXCEPT ![i] = Append(@, res.err)]
                /\ IF AllReported(Len(errs'[i]), mxRecords[i])
                     THEN /\ rret' = [rret EXCEPT ![i] =
                                        [client |-> NoClient, err |-> errs'[i][1]]]
                          /\ rpc' = [rpc EXCEPT ![i] = "ret"]
                     ELSE UNCHANGED <<rret, rpc>>
    /\ UNCHANGED <<mxRecords, done, mutex, placed>>
    /\ UNCHANGED taskVars
    /\ UNCHANGED callVars

\* every step of the goroutines of invocation i
RaceStep(i) ==
    \/ Collect(i)
    \/ \E h \in Hosts :
         \/ establishConnection(i, h)
         \/ NewClient(i, h)
         \/ dialSMTP(i, h)
         \/ dialTimeout(i, h)
         \/ checkDone(i, h)
         \/ sendError(i, h)
         \/ Lock(i, h)
         \/ Switch(i, h)
         \/ sendClient(i, h)
         \/ Unlock(i, h)

\* ------------------------------------------- newSMTPClient studied alone
\* One invocation of newSMTPClient (CheckCatchAll's), called directly.
InitAlone ==
    /\ InitRace
    /\ rpc = [i \in Invocations |-> IF i = "CheckCatchAll" THEN "call" ELSE "idle"]
    /\ opc = "race"
    /\ cur = "CheckCatchAll"
    /\ smtpCheckEnabled = TRUE
    /\ username = ""
    /\ ret = ZeroSMTP
    /\ client = NoClient
    /\ out = NoOutput
    /\ trace = {}
    /\ probers = [p \in Invocations |-> NotRun]
    /\ server = [h \in Hosts |-> AnyServer]
    /\ prev = NoRun

NextAlone ==
    \/ newSMTPClient("CheckCatchAll", MaxMX)
    \/ RaceStep("CheckCatchAll")

SpecRace == InitAlone /\ [][NextAlone]_vars

\* smtp.go 171-192: the steps of the attempt goroutine for host h itself,
\* from the return of its dialSMTP call (result or timer) to its end
Attempt(i, h) ==
    \/ dialSMTP(i, h)
    \/ dialTimeout(i, h)
    \/ checkDone(i, h)
    \/ sendError(i, h)
    \/ Lock(i, h)
    \/ Switch(i, h)
    \/ sendClient(i, h)
    \/ Unlock(i, h)

\* newSMTPClient alone under a fair scheduler: a goroutine that can take a
\* step eventually does. The timer of dialSMTP makes each dialSMTP call
\* return; nothing is assumed of the network (establishConnection, NewClient).
FairSpecRace ==
    /\ SpecRace
    /\ WF_vars(Collect("CheckCatchAll"))
    /\ \A h \in Hosts : WF_vars(Attempt("CheckCatchAll", h))

\* ------------------------------------------------------ error classifier
\* The semantic kinds of the classifier (errors.go is not among the sources;
\* the kinds are those of the error taxonomy).
ErrFullInbox == "ErrFullInbox"
ErrNotAllowed == "ErrNotAllowed"
ErrServerUnavailable == "ErrServerUnavailable"
ErrTimeout == "ErrTimeout"
ErrConnection == "ErrConnection"
ErrResolution == "ErrResolution"
ErrUnclassified == "ErrUnclassified"

\* the kind of a raw failure
Classify(details) ==
    CASE details = "452 mailbox full" -> ErrFullInbox
      [] details = "554 not allowed" -> ErrNotAllowed
      [] details = "550 no such user" -> ErrServerUnavailable
      [] details = "timeout connecting to mail-exchanger" -> ErrTimeout
      [] details \in {"connect", "banner", "connection lost"} -> ErrConnection
      [] details \in {"lookup", "no MX records found"} -> ErrResolution
      [] OTHER -> ErrUnclassified

\* ParseSMTPError: a failure becomes a classified error that keeps the
\* underlying failure; no failure stays no failure.
ParseSMTPError(e) ==
    IF e = Nil THEN Nil ELSE [e EXCEPT !.Message = Classify(e.Details)]

\* ------------------------------------------------------------ CheckSMTP
\* smtp.go 122-124 and 142-144: CheckSMTP returns &ret with the prober's
\* error
\* CheckSMTP returning no record with the error
ReturnErrorNil(r, e) == [ret |-> <<>>, err |-> e]

ReturnError(r, e) == [ret |-> <<r>>, err |-> e]

\* a prober that sets its defaults before it has a client
ProberFailsAfterDefaults(e) ==
    LET pe == ParseSMTPError(ParseSMTPError(e))
        r == [ret EXCEPT !.HostExists = TRUE] IN
    /\ probers' = [probers EXCEPT ![cur] =
                     [state |-> "failed", err |-> pe, probed |-> FALSE,
                      reply |-> Nil, rec |-> r]]
    /\ out' = ReturnError(r, pe)
    /\ opc' = "returned"

\* smtp.go 29-31, 34-36, 39-41: GetClient returns ParseSMTPError of the
\* failure e; smtp.go 54-56, 90-92: the prober returns ParseSMTPError of
\* that, having touched neither the record nor the client; CheckSMTP
\* returns at once.
ProberFails(e) ==
    LET pe == ParseSMTPError(ParseSMTPError(e)) IN
    /\ probers' = [probers EXCEPT ![cur] =
                     [state |-> "failed", err |-> pe, probed |-> FALSE,
                      reply |-> Nil, rec |-> ret]]
    /\ out' = ReturnError(ret, pe)
    /\ opc' = "returned"

\* CheckSMTP without the enablement gate
CheckSMTPNoGate ==
    /\ opc = "start"
    /\ ret' = ZeroSMTP
    /\ cur' = "CheckCatchAll"
    /\ trace' = trace \cup {"CheckCatchAll"}
    /\ probers' = [probers EXCEPT !["CheckCatchAll"].state = "running"]
    /\ rpc' = [rpc EXCEPT !["CheckCatchAll"] = "call"]
    /\ opc' = "race"
    /\ UNCHANGED out
    /\ UNCHANGED <<mxRecords, ch, done, mutex, errs, rret, placed>>
    /\ UNCHANGED taskVars
    /\ UNCHANGED <<server, prev, smtpCheckEnabled, username, client>>

\* smtp.go 113-120: the enablement gate; otherwise the record is allocated
\* and CheckCatchAll is called, which calls GetClient, which calls
\* newSMTPClient.
CheckSMTP ==
    /\ opc = "start"
    /\ IF ~smtpCheckEnabled
         THEN /\ out' = [ret |-> <<>>, err |-> Nil]
              /\ opc' = "returned"
              /\ UNCHANGED <<rpc, ret, cur, trace, probers>>
         ELSE /\ ret' = ZeroSMTP
              /\ cur' = "CheckCatchAll"
              /\ trace' = trace \cup {"CheckCatchAll"}
              /\ probers' = [probers EXCEPT !["CheckCatchAll"].state = "running"]
              /\ rpc' = [rpc EXCEPT !["CheckCatchAll"] = "call"]
              /\ opc' = "race"
              /\ UNCHANGED out
    /\ UNCHANGED <<mxRecords, ch, done, mutex, errs, rret, placed>>
    /\ UNCHANGED taskVars
    /\ UNCHANGED <<server, prev, smtpCheckEnabled, username, client>>

\* smtp.go 27-31: newSMTPClient has returned to GetClient
GetClient ==
    /\ opc = "race"
    /\ rpc[cur] = "ret"
    /\ client' = rret[cur].client
    /\ IF rret[cur].err # Nil
         THEN ProberFails(rret[cur].err)
         ELSE /\ opc' = "hello"
              /\ UNCHANGED <<out, probers>>
    /\ UNCHANGED raceVars
    /\ UNCHANGED taskVars
    /\ UNCHANGED <<cur, server, prev, smtpCheckEnabled, username, ret, trace>>

\* smtp.go 33-36: client.Hello; on failure GetClient returns the client
\* with the classified error and the prober returns that error
Hello ==
    /\ opc = "hello"
    /\ trace' = trace \cup {"Hello"}
    /\ \E r \in Exchange(cur, client, "helo") :
         IF r # Nil
           THEN ProberFails(r)
           ELSE /\ opc' = "mail"
                /\ UNCHANGED <<out, probers>>
    /\ UNCHANGED raceVars
    /\ UNCHANGED taskVars
    /\ UNCHANGED <<cur, server, prev, smtpCheckEnabled, username, ret, client>>

\* smtp.go 38-43: client.Mail, likewise; on success GetClient returns the
\* client and no error
Mail ==
    /\ opc = "mail"
    /\ trace' = trace \cup {"Mail"}
    /\ \E r \in Exchange(cur, client, "mail") :
         IF r # Nil
           THEN ProberFails(r)
           ELSE /\ opc' = "rcpt"
                /\ UNCHANGED <<out, probers>>
    /\ UNCHANGED raceVars
    /\ UNCHANGED taskVars
    /\ UNCHANGED <<cur, server, prev, smtpCheckEnabled, username, ret, client>>

\* history: a prober that made its probe and returned nil (smtp.go 83, 105)
ProberDone(reply, r) ==
    [state |-> "ok", err |-> Nil, probed |-> TRUE, reply |-> reply, rec |-> r]

\* CheckCatchAll without the catch-all default of smtp.go 59
CatchAllFlagsNoDefault(r, reply) ==
    LET r0 == [r EXCEPT !.HostExists = TRUE]
        e == ParseSMTPError(reply)
    IN  IF reply # Nil /\ e # Nil
          THEN CASE e.Message = ErrFullInbox -> [r0 EXCEPT !.FullInbox = TRUE]
                 [] e.Message = ErrNotAllowed -> [r0 EXCEPT !.Disabled = TRUE]
                 [] e.Message = ErrServerUnavailable -> [r0 EXCEPT !.CatchAll = FALSE]
                 [] OTHER -> r0
          ELSE r0

\* CheckCatchAll taking a full mailbox as a rejection of the address
CatchAllFlagsFullRejects(r, reply) ==
    LET r0 == [r EXCEPT !.CatchAll = TRUE, !.HostExists = TRUE]
        e == ParseSMTPError(reply)
    IN  IF reply # Nil /\ e # Nil
          THEN CASE e.Message = ErrFullInbox ->
                      [r0 EXCEPT !.FullInbox = TRUE, !.CatchAll = FALSE]
                 [] e.Message = ErrNotAllowed -> [r0 EXCEPT !.Disabled = TRUE]
                 [] e.Message = ErrServerUnavailable -> [r0 EXCEPT !.CatchAll = FALSE]
                 [] OTHER -> r0
          ELSE r0

\* smtp.go 58-81: the flags CheckCatchAll leaves in the record r when the
\* random-address probe was answered with reply (Nil: accepted)
CatchAllFlags(r, reply) ==
    LET r0 == [r EXCEPT !.CatchAll = TRUE, !.HostExists = TRUE]
        e == ParseSMTPError(reply)
    IN  IF reply # Nil /\ e # Nil
          THEN CASE e.Message = ErrFullInbox -> [r0 EXCEPT !.FullInbox = TRUE]
                 [] e.Message = ErrNotAllowed -> [r0 EXCEPT !.Disabled = TRUE]
                 [] e.Message = ErrServerUnavailable -> [r0 EXCEPT !.CatchAll = FALSE]
                 [] OTHER -> r0
          ELSE r0

\* the test of smtp.go 128 without its username half
SkipPresenceOnlyCatchAll(r, u) == r.CatchAll

\* smtp.go 128: no deliverability probe for a catch-all server or without
\* a username
SkipPresence(r, u) == r.CatchAll \/ u = ""

\* smtp.go 52-83 after GetClient succeeded: the flags, the probe of the
\* random address, the deferred Close and the return of nil; then
\* smtp.go 122-138: CheckSMTP returns the record or calls
\* CheckSMTPPresence, which calls GetClient, which calls newSMTPClient.
CheckCatchAll ==
    /\ opc = "rcpt"
    /\ cur = "CheckCatchAll"
    /\ \E reply \in Exchange(cur, client, "rcpt") :
         /\ ret' = CatchAllFlags(ret, reply)
         /\ IF SkipPresence(ret', username)
              THEN /\ probers' = [probers EXCEPT ![cur] = ProberDone(reply, ret')]
                   /\ out' = [ret |-> <<ret'>>, err |-> Nil]
                   /\ opc' = "returned"
                   /\ trace' = trace \cup {"Rcpt"}
                   /\ UNCHANGED <<rpc, cur>>
              ELSE /\ probers' = [probers EXCEPT
                                    ![cur] = ProberDone(reply, ret'),
                                    !["CheckSMTPPresence"].state = "running"]
                   /\ cur' = "CheckSMTPPresence"
                   /\ trace' = trace \cup {"Rcpt", "CheckSMTPPresence"}
                   /\ rpc' = [rpc EXCEPT !["CheckSMTPPresence"] = "call"]
                   /\ opc' = "race"
                   /\ UNCHANGED out
    /\ sock' = [sock EXCEPT ![cur][client] = "closed"]
    /\ client' = NoClient
    /\ UNCHANGED <<mxRecords, ch, done, mutex, errs, rret, placed>>
    /\ UNCHANGED <<tpc, tval, ipc, dch>>
    /\ UNCHANGED <<server, prev, smtpCheckEnabled, username>>

\* CheckSMTPPresence with the test of smtp.go 101 inverted
PresenceFlagsInverted(r, reply) ==
    LET r0 == [r EXCEPT !.HostExists = TRUE]
    IN  IF reply # Nil THEN [r0 EXCEPT !.Deliverable = TRUE] ELSE r0

\* smtp.go 94-103: the flags CheckSMTPPresence leaves in the record r
PresenceFlags(r, reply) ==
    LET r0 == [r EXCEPT !.HostExists = TRUE]
    IN  IF reply = Nil THEN [r0 EXCEPT !.Deliverable = TRUE] ELSE r0

\* smtp.go 88-105 after GetClient succeeded: the probe of username@domain,
\* the deferred Close and the return of nil; then smtp.go 142-146.
CheckSMTPPresence ==
    /\ opc = "rcpt"
    /\ cur = "CheckSMTPPresence"
    /\ \E reply \in Exchange(cur, client, "user") :
         /\ ret' = PresenceFlags(ret, reply)
         /\ probers' = [probers EXCEPT ![cur] = ProberDone(reply, ret')]
    /\ sock' = [sock EXCEPT ![cur][client] = "closed"]
    /\ client' = NoClient
    /\ trace' = trace \cup {"RcptUser"}
    /\ out' = [ret |-> <<ret'>>, err |-> Nil]
    /\ opc' = "returned"
    /\ UNCHANGED raceVars
    /\ UNCHANGED <<tpc, tval, ipc, dch>>
    /\ UNCHANGED <<cur, server, prev, smtpCheckEnabled, username>>

\* ---------------------------------------------------- the whole program
Usernames == {"", "alice"}

Init ==
    /\ InitRace
    /\ rpc = [i \in Invocations |-> "idle"]
    /\ opc = "start"
    /\ cur = "CheckCatchAll"
    /\ smtpCheckEnabled \in BOOLEAN
    /\ username \in Usernames
    /\ ret = ZeroSMTP
    /\ client = NoClient
    /\ out = NoOutput
    /\ trace = {}
    /\ probers = [p \in Invocations |-> NotRun]
    /\ server = [h \in Hosts |-> AnyServer]
    /\ prev = NoRun

Next ==
    \/ CheckSMTP
    \/ GetClient
    \/ Hello
    \/ Mail
    \/ CheckCatchAll
    \/ CheckSMTPPresence
    \/ \E i \in Invocations :
         \/ newSMTPClient(i, MaxLookup)
         \/ RaceStep(i)

Spec == Init /\ [][Next]_vars

\* ------------------------------------ the catch-all probe, run twice
\* CheckCatchAll called twice for one domain while nothing in the network
\* changes: every MX server answers each step in one fixed way and either
\* always or never in time, and the resolver gives the same answer to both
\* lookups.
Stable(c, b, he, m, r) ==
    [conn |-> {c}, banner |-> {b}, timely |-> {TRUE}, helo |-> {he},
     mail |-> {m}, rcpt |-> {r}, user |-> AnyAnswer]

\* a server that never answers a connection attempt
Silent ==
    [conn |-> {}, banner |-> {}, timely |-> {FALSE}, helo |-> {},
     mail |-> {}, rcpt |-> {}, user |-> {}]

Profiles ==
    { Stable(FALSE, TRUE, "nil", "nil", "nil"),                   \* refuses connections
      Stable(TRUE, FALSE, "nil", "nil", "nil"),                   \* no banner
      Stable(TRUE, TRUE, "554 not allowed", "nil", "nil"),        \* rejects EHLO
      Stable(TRUE, TRUE, "nil", "421 try again later", "nil"),    \* rejects MAIL
      Stable(TRUE, TRUE, "nil", "nil", "nil"),                    \* accepts any address
      Stable(TRUE, TRUE, "nil", "nil", "550 no such user"),       \* knows its users
      Stable(TRUE, TRUE, "nil", "nil", "452 mailbox full"),
      Silent }

\* what net.LookupMX answered in the run (smtp.go 152-159): the number of
\* MX records, or -1 for a failed lookup
LookupOf ==
    IF mxRecords["CheckCatchAll"] > 0 THEN mxRecords["CheckCatchAll"]
    ELSE IF rret["CheckCatchAll"].err.Details = "lookup" THEN 0 - 1 ELSE 0

InitTwice ==
    /\ InitRace
    /\ rpc = [i \in Invocations |-> IF i = "CheckCatchAll" THEN "call" ELSE "idle"]
    /\ opc = "race"
    /\ cur = "CheckCatchAll"
    /\ smtpCheckEnabled = TRUE
    /\ username = ""
    /\ ret = ZeroSMTP
    /\ client = NoClient
    /\ out = NoOutput
    /\ trace = {}
    /\ probers = [p \in Invocations |-> NotRun]
    /\ \E p \in [1..MaxFarm -> Profiles] :
         server = [h \in Hosts |-> IF h <= MaxFarm THEN p[h] ELSE AnyServer]
    /\ prev = NoRun

\* smtp.go 152: the lookup of the second run answers as that of the first
LookupAgain ==
    /\ newSMTPClient("CheckCatchAll", MaxFarm)
    /\ prev.ran => LookupOf' = prev.lookup

\* smtp.go 48-52: CheckCatchAll is called again. The first run's outcome is
\* kept in prev; the new call has a record, a channel, a flag, a mutex and
\* tasks of its own, so what is left of the first call is dropped.
RunAgain ==
    /\ opc = "returned"
    /\ ~prev.ran
    /\ prev' = [ran |-> TRUE, lookup |-> LookupOf,
                winner |-> rret["CheckCatchAll"].client,
                HostExists |-> probers["CheckCatchAll"].rec.HostExists,
                CatchAll |-> probers["CheckCatchAll"].rec.CatchAll]
    /\ mxRecords' = [i \in Invocations |-> 0]
    /\ ch' = [i \in Invocations |-> <<>>]
    /\ done' = [i \in Invocations |-> FALSE]
    /\ mutex' = [i \in Invocations |-> 0]
    /\ errs' = [i \in Invocations |-> <<>>]
    /\ rret' = [i \in Invocations |-> NoResult]
    /\ placed' = [i \in Invocations |-> {}]
    /\ tpc' = [i \in Invocations |-> [h \in Hosts |-> "none"]]
    /\ tval' = [i \in Invocations |-> [h \in Hosts |-> NoResult]]
    /\ ipc' = [i \in Invocations |-> [h \in Hosts |-> "none"]]
    /\ dch' = [i \in Invocations |-> [h \in Hosts |-> <<>>]]
    /\ sock' = [i \in Invocations |-> [h \in Hosts |-> "none"]]
    /\ rpc' = [i \in Invocations |-> IF i = "CheckCatchAll" THEN "call" ELSE "idle"]
    /\ opc' = "race"
    /\ ret' = ZeroSMTP
    /\ client' = NoClient
    /\ out' = NoOutput
    /\ trace' = {}
    /\ probers' = [p \in Invocations |-> NotRun]
    /\ UNCHANGED <<cur, smtpCheckEnabled, username, server>>

NextTwice ==
    \/ LookupAgain
    \/ RaceStep("CheckCatchAll")
    \/ GetClient
    \/ Hello
    \/ Mail
    \/ CheckCatchAll
    \/ RunAgain

SpecTwice == InitTwice /\ [][NextTwice]_vars

\* =================================================================== claims
CCA == "CheckCatchAll"
CSP == "CheckSMTPPresence"

\* the attempts of invocation i whose dialSMTP call returned a client
Succeeded(i) == {h \in Hosts : tval[i][h].client # NoClient}
\* the MX hosts of invocation i
Launched(i) == 1..mxRecords[i]
\* the errors the collector of invocation i has received
Collected(i) == {errs[i][k] : k \in 1..Len(errs[i])}
\* newSMTPClient returned without any MX host to dial
NothingResolved(i) == rpc[i] = "ret" /\ mxRecords[i] = 0

\* C1: at the step in which newSMTPClient returns, no connection opened by
\* an attempt of that invocation is open except the returned client's.
C1_OnlyReturnedSessionOpen ==
    [][\A i \in Invocations :
         (rpc[i] # "ret" /\ rpc'[i] = "ret") =>
           \A h \in Hosts : sock'[i][h] = "open" => h = rret'[i].client]_vars

\* C2: in one invocation at most one client is ever sent on the result
\* channel, and a client the racer returns is that one.
C2_AtMostOnePlaced ==
    \A i \in Invocations :
      /\ Cardinality(placed[i]) <= 1
      /\ (rpc[i] = "ret" /\ rret[i].client # NoClient) => placed[i] = {rret[i].client}

\* two attempts succeeded, both are through the switch, one client returned
C2_Witness ==
    /\ rpc[CCA] = "ret"
    /\ rret[CCA].client # NoClient
    /\ Cardinality({h \in Succeeded(CCA) : tpc[CCA][h] = "exit"}) >= 2

\* C3: once an attempt has succeeded, what newSMTPClient returns is a
\* client with a nil error, its connection open; no failure is surfaced.
C3_SuccessIsReturned ==
    \A i \in Invocations :
      (rpc[i] = "ret" /\ Succeeded(i) # {}) =>
         /\ rret[i].client # NoClient
         /\ rret[i].err = Nil
         /\ sock[i][rret[i].client] = "open"

\* three MX hosts, two failures collected before the one success returned
C3_Witness ==
    /\ rpc[CCA] = "ret"
    /\ mxRecords[CCA] = 3
    /\ Cardinality(Succeeded(CCA)) = 1
    /\ Len(errs[CCA]) = 2
    /\ rret[CCA].client # NoClient

\* C4: with MX records, newSMTPClient returns an error only when every
\* attempt failed and the collector received each one's error; the error
\* returned is the error of one of the attempts.
C4_ErrorOnlyWhenAllReported ==
    \A i \in Invocations :
      (rpc[i] = "ret" /\ rret[i].err # Nil /\ mxRecords[i] >= 1) =>
         /\ \A h \in Launched(i) :
              /\ tval[i][h].err # Nil
              /\ tval[i][h].err \in Collected(i)
         /\ \E h \in Launched(i) : rret[i].err = tval[i][h].err

\* three MX hosts all failed, one of them by the dial timeout
C4_Witness ==
    /\ rpc[CCA] = "ret"
    /\ mxRecords[CCA] = 3
    /\ rret[CCA].err # Nil
    /\ \E h \in Launched(CCA) :
         tval[CCA][h].err.Details = "timeout connecting to mail-exchanger"

\* C5: when the lookup fails or gives no MX record, newSMTPClient fails
\* having launched no attempt, and an enabled CheckSMTP returns an error
\* with a record whose five flags are false.
C5_NoMXFails ==
    /\ \A i \in Invocations :
         NothingResolved(i) =>
           /\ rret[i].client = NoClient
           /\ rret[i].err # Nil
           /\ \A h \in Hosts :
                tpc[i][h] = "none" /\ ipc[i][h] = "none" /\ sock[i][h] = "none"
    /\ (opc = "returned" /\ smtpCheckEnabled /\ NothingResolved(CCA)) =>
         /\ out.err # Nil
         /\ out.ret = <<ZeroSMTP>>

C5_Witness ==
    /\ opc = "returned"
    /\ smtpCheckEnabled
    /\ NothingResolved(CCA)
    /\ rret[CCA].err.Details = "no MX records found"

\* C6: with SMTP checking disabled CheckSMTP returns a nil record and a nil
\* error, and no lookup, dial or SMTP command is ever made.
C6_DisabledDoesNothing ==
    ~smtpCheckEnabled =>
       /\ trace = {}
       /\ \A i \in Invocations :
            /\ rpc[i] = "idle"
            /\ \A h \in Hosts :
                 tpc[i][h] = "none" /\ ipc[i][h] = "none" /\ sock[i][h] = "none"
       /\ opc = "returned" => out = [ret |-> <<>>, err |-> Nil]

C6_Witness == ~smtpCheckEnabled /\ opc = "returned"

\* C7: when CheckCatchAll fails, CheckSMTP returns a non-nil record (the
\* record as CheckCatchAll left it) with that error, and CheckSMTPPresence
\* is never run.
C7_CatchAllFailureReturned ==
    probers[CCA].state = "failed" =>
       /\ opc = "returned"
       /\ out.ret = <<probers[CCA].rec>>
       /\ out.err = probers[CCA].err
       /\ out.err # Nil
       /\ probers[CSP].state = "notrun"
       /\ rpc[CSP] = "idle"
       /\ "CheckSMTPPresence" \notin trace

\* CheckCatchAll failed in the handshake, after a connection was made
C7_Witness ==
    /\ probers[CCA].state = "failed"
    /\ "Hello" \in trace
    /\ out.err # Nil

\* C8: CheckSMTPPresence runs exactly when CheckCatchAll returned nil with
\* CatchAll false and a username was given; an accepted random probe gives
\* CatchAll true and Deliverable is never set; a random probe rejected as
\* unavailable, with a username, leads to the deliverability probe.
C8_PresenceRunsIff ==
    LET cca == probers[CCA]
        csp == probers[CSP]
    IN  /\ cca.state \in {"notrun", "running"} => csp.state = "notrun"
        /\ cca.state \in {"ok", "failed"} =>
             ((csp.state # "notrun") <=>
                (cca.state = "ok" /\ ~cca.rec.CatchAll /\ username # ""))
        /\ (cca.state = "ok" /\ cca.reply = Nil) =>
             (ret.CatchAll /\ ~ret.Deliverable /\ csp.state = "notrun")
        /\ (cca.state = "ok" /\ cca.reply # Nil /\ username # ""
              /\ ParseSMTPError(cca.reply).Message = ErrServerUnavailable) =>
             (~ret.CatchAll /\ csp.state # "notrun")

\* the random probe was rejected as unavailable and CheckSMTPPresence ran
C8_Witness ==
    /\ probers[CCA].state = "ok"
    /\ probers[CCA].reply # Nil
    /\ ParseSMTPError(probers[CCA].reply).Message = ErrServerUnavailable
    /\ probers[CSP].state = "ok"

\* C9: the record CheckCatchAll leaves is decided by the classification of
\* the random probe's reply, with HostExists true and a nil error.
C9_CatchAllOutcome ==
    LET cca == probers[CCA]
        kind == IF cca.reply = Nil THEN "accepted"
                ELSE ParseSMTPError(cca.reply).Message
    IN  cca.state = "ok" =>
          /\ cca.err = Nil
          /\ cca.rec.HostExists
          /\ ~cca.rec.Deliverable
          /\ cca.rec.FullInbox = (kind = ErrFullInbox)
          /\ cca.rec.Disabled = (kind = ErrNotAllowed)
          /\ cca.rec.CatchAll = (kind # ErrServerUnavailable)

\* the mailbox-full case
C9_Witness ==
    /\ probers[CCA].state = "ok"
    /\ probers[CCA].reply # Nil
    /\ ParseSMTPError(probers[CCA].reply).Message = ErrFullInbox
    /\ probers[CCA].rec.FullInbox

\* C10: Deliverable is true exactly when CheckSMTPPresence obtained a
\* session and its probe was accepted; a rejected probe leaves it false
\* and no error is returned.
C10_DeliverableIffAccepted ==
    LET csp == probers[CSP]
    IN  /\ ret.Deliverable <=> (csp.state = "ok" /\ csp.probed /\ csp.reply = Nil)
        /\ (csp.state = "ok" /\ csp.reply # Nil) =>
             /\ ~csp.rec.Deliverable
             /\ csp.err = Nil
             /\ opc = "returned"
             /\ out = [ret |-> <<csp.rec>>, err |-> Nil]

\* the probe of username@domain was accepted
C10_Witness ==
    /\ probers[CSP].state = "ok"
    /\ probers[CSP].reply = Nil
    /\ ret.Deliverable

\* the session newSMTPClient handed to prober p, if any
SessionOf(p) == rret[p].client

\* C11: a record returned by CheckSMTP has HostExists true whenever
\* newSMTPClient returned a session during the call, whatever failed later.
C11_HostExistsOnceConnected ==
    (opc = "returned" /\ out.ret # <<>> /\ \E p \in Invocations : SessionOf(p) # NoClient)
       => out.ret[1].HostExists

\* C12: when a prober has returned, the session newSMTPClient gave it is
\* closed, whether the probe was answered or the handshake failed.
C12_ProberClosesSession ==
    \A p \in Invocations :
      (probers[p].state \in {"ok", "failed"} /\ SessionOf(p) # NoClient)
         => sock[p][SessionOf(p)] = "closed"

\* C20: a non-nil record returned by CheckSMTP is consistent: every other
\* flag implies HostExists; Deliverable and CatchAll exclude each other;
\* FullInbox or Disabled imply CatchAll and not Deliverable; Deliverable
\* implies a username was given and a nil error.
C20_FlagConsistency ==
    (opc = "returned" /\ out.ret # <<>>) =>
       LET r == out.ret[1] IN
       /\ (r.CatchAll \/ r.FullInbox \/ r.Disabled \/ r.Deliverable) => r.HostExists
       /\ ~(r.Deliverable /\ r.CatchAll)
       /\ (r.FullInbox \/ r.Disabled) => (r.CatchAll /\ ~r.Deliverable)
       /\ r.Deliverable => (username # "" /\ out.err = Nil)

\* a returned record with Deliverable set
C20_Witness ==
    /\ opc = "returned"
    /\ out.ret # <<>>
    /\ out.ret[1].Deliverable
    /\ out.ret[1].HostExists
    /\ ~out.ret[1].CatchAll

TimeoutText == "timeout connecting to mail-exchanger"

\* C14: a dialSMTP call cut off by its timer fails with the timeout error,
\* and a connection its background goroutine makes is closed by the time
\* that goroutine has ended.
C14_AbandonedDialClosed ==
    \A i \in Invocations : \A h \in Hosts :
      tval[i][h].err.Details = TimeoutText =>
         /\ tval[i][h].client = NoClient
         /\ ipc[i][h] = "exit" => sock[i][h] # "open"

\* C15: an attempt that got its session after a winner was recorded has
\* closed it when it is past the switch, and never sent it: a session is
\* sent or closed, never both.
C15_LateSessionClosed ==
    \A i \in Invocations : \A h \in Succeeded(i) :
      /\ (tpc[i][h] \in {"unlock", "exit"} /\ h \notin placed[i])
            => sock[i][h] = "closed"
      /\ (tpc[i][h] = "unlock" /\ sock[i][h] = "closed") => h \notin placed[i]
      /\ \A k \in 1..Len(ch[i]) :
            ch[i][k].client = h => (h \in placed[i] /\ sock[i][h] = "open")

\* a loser finished with its session closed, after the racer returned
C15_Witness ==
    /\ rpc[CCA] = "ret"
    /\ \E h \in Succeeded(CCA) :
         /\ tpc[CCA][h] = "exit"
         /\ h \notin placed[CCA]
         /\ sock[CCA][h] = "closed"

\* C17: a task that is about to read or write done holds the mutex, on the
\* error path (smtp.go 176) as on the success path (smtp.go 185-186).
C17_DoneUnderMutex ==
    \A i \in Invocations : \A h \in Hosts :
      tpc[i][h] \in {"checkdone", "switch"} => mutex[i] = h

\* C18: once newSMTPClient has returned, no attempt task is left in a send
\* on a full result channel, which nobody will receive from again.
C18_NoTaskBlockedForever ==
    \A i \in Invocations :
      rpc[i] = "ret" =>
        \A h \in Hosts :
          ~(tpc[i][h] \in {"senderr", "sendclient"} /\ Len(ch[i]) >= 1)

\* C16: once a winner is recorded and newSMTPClient has not yet returned,
\* the winner's send or the collector's receive can be taken at once, so the
\* return needs no step of any other attempt; and the session then returned
\* is the recorded winner's.
C16_WinnerReturnsAlone ==
    \A i \in Invocations :
      /\ (done[i] /\ rpc[i] = "collect") =>
            \/ ENABLED Collect(i)
            \/ \E w \in Hosts : ENABLED sendClient(i, w)
      /\ (done[i] /\ rpc[i] = "ret") => rret[i].client \in placed[i]

\* the winner was returned while another attempt was still dialling
C16_Witness ==
    /\ rpc[CCA] = "ret"
    /\ rret[CCA].client \in placed[CCA]
    /\ \E h \in Hosts : h # rret[CCA].client /\ tpc[CCA][h] = "dial"

\* C19: under a fair scheduler, a newSMTPClient call that has launched its
\* attempts (a non-empty MX set) eventually returns a session or an error.
C19_EventuallyReturns == (rpc[CCA] = "collect") ~> (rpc[CCA] = "ret")

\* the winner holds the mutex in its send on a full channel while a failed
\* attempt waits to send its error
C19_Witness ==
    /\ rpc[CCA] = "collect"
    /\ Len(ch[CCA]) = 1
    /\ \E w \in Hosts :
         /\ tpc[CCA][w] = "sendclient" /\ mutex[CCA] = w
         /\ \E h \in Hosts : tpc[CCA][h] = "senderr"

\* C13: the catch-all probe run twice against unchanged servers gives the
\* same hostExists and catchAll both times, whatever the dial races did.
C13_SameVerdictTwice ==
    (prev.ran /\ opc = "returned") =>
       /\ probers[CCA].rec.HostExists = prev.HostExists
       /\ probers[CCA].rec.CatchAll = prev.CatchAll

\* C13 as amended: the two runs give the same hostExists and catchAll
\* whenever their dial races ended alike, with the session of the same MX
\* host handed to the prober, or with none in both.
C13_SameWinnerSameVerdict ==
    (prev.ran /\ opc = "returned" /\ rret[CCA].client = prev.winner) =>
       /\ probers[CCA].rec.HostExists = prev.HostExists
       /\ probers[CCA].rec.CatchAll = prev.CatchAll

\* both runs raced two MX hosts, the same host won both and the verdict
\* was catch-all both times
C13_Witness ==
    /\ prev.ran /\ opc = "returned"
    /\ mxRecords[CCA] = 2
    /\ prev.winner # NoClient /\ rret[CCA].client = prev.winner
    /\ prev.CatchAll /\ probers[CCA].rec.CatchAll
    /\ prev.HostExists /\ probers[CCA].rec.HostExists

====
